---- MODULE Spec2Model ----
(***************************************************************************)
(* LocalRank CLI (scripts/localrank.js): the report commands that group    *)
(* the scan listing by business and derive trend, risk and priority        *)
(* signals (client:report, portfolio:summary, prioritize:today,            *)
(* quick-wins:find, at-risk:clients), as run under main().                 *)
(*                                                                         *)
(* One behaviour is one invocation of the CLI: the initial state holds     *)
(* what the upstream service will answer (the scan listing and, per scan   *)
(* uuid, the scan detail or a failure), one action runs a whole command    *)
(* handler under main()'s try/catch, and the process has then exited.      *)
(*                                                                         *)
(* Ranks are fixed-point numbers in hundredths of a position (1250 is the  *)
(* rank 12.5); a business name is the sequence of its characters.          *)
(***************************************************************************)
EXTENDS Integers, Sequences, FiniteSets, TLC

VARIABLES
  results,   \* data.results of GET /api/scans/: the scan listing, in API order
  detail,    \* uuid -> what GET /api/scans/<uuid>/ answers (ok, keyword_results)
  pc,        \* "ready" before the handler runs, "done" after the process ended
  out        \* what the process wrote: the JSON report, or the error and exit code

vars == <<results, detail, pc, out>>

(***************************************************************************)
(* JavaScript values and library functions the handlers use                *)
(***************************************************************************)

\* null / undefined of an optional number or token (a missing or empty string
\* is the empty sequence <<>>: the code tests both with the same truthiness)
NULL == -1

\* A field the report object does not have at all
Omitted == -2

\* `if (x)` / `x && ...` on a number-or-null: null, undefined and 0 are falsy
Truthy(x) == x # NULL /\ x # 0

\* Math.round(x * 10) / 10 on hundredths: to the nearest tenth, a half goes up
\* (towards +infinity, also for negative x). The arithmetic is exact: the
\* representation error of binary floating point is not modelled.
Round1(x) == ((x + 5) \div 10) * 10

\* Math.abs
Abs(x) == IF x < 0 THEN 0 - x ELSE x

\* One character of String.prototype.toLowerCase over the alphabet in use
LowerChar(c) ==
  CASE c = "A" -> "a"
    [] c = "B" -> "b"
    [] c = "U" -> "u"
    [] OTHER -> c

\* String.prototype.toLowerCase
toLowerCase(s) == [i \in 1..Len(s) |-> LowerChar(s[i])]

\* String.prototype.includes: t occurs in s as a contiguous substring
includes(s, t) ==
  \E i \in 0..(Len(s) - Len(t)) : SubSeq(s, i + 1, i + Len(t)) = t

\* The decimal digits, as characters, and their values
Digits == {"0", "1", "2", "3", "4", "5", "6", "7", "8", "9"}

DigitVal(c) ==
  CASE c = "0" -> 0 [] c = "1" -> 1 [] c = "2" -> 2 [] c = "3" -> 3
    [] c = "4" -> 4 [] c = "5" -> 5 [] c = "6" -> 6 [] c = "7" -> 7
    [] c = "8" -> 8 [] c = "9" -> 9

\* A property key that is a canonical array index ("0", "7", "42"; not "07"):
\* such keys of an ordinary object are enumerated first, in ascending numeric
\* order, whatever the order they were added in
IsArrayIndex(key) ==
  /\ Len(key) >= 1
  /\ \A i \in 1..Len(key) : key[i] \in Digits
  /\ (Len(key) > 1 => key[1] # "0")

RECURSIVE IndexValue(_)
IndexValue(key) ==
  IF Len(key) = 0 THEN 0
  ELSE 10 * IndexValue(SubSeq(key, 1, Len(key) - 1)) + DigitVal(key[Len(key)])

\* Array.prototype.sort with a comparator (a, b) => key(a) - key(b), keys[i]
\* being the key of s[i]: ascending by key, and stable (Node 11 and later), so
\* that equal keys keep their order
StableSort(s, keys) ==
  LET n == Len(s)
      pos(i) == 1 + Cardinality({j \in 1..n :
                      \/ keys[j] < keys[i]
                      \/ (keys[j] = keys[i] /\ j < i)})
  IN  [p \in 1..n |-> s[CHOOSE i \in 1..n : pos(i) = p]]

\* Array.prototype.slice(0, k)
Slice(s, k) == SubSeq(s, 1, IF Len(s) < k THEN Len(s) ELSE k)

\* Object.keys / Object.entries order of an object whose keys were added in the
\* order `added` (no repeats): array-index keys ascending, then the others in
\* the order they were added
OwnKeys(added) ==
  LET idx == SelectSeq(added, IsArrayIndex)
      str == SelectSeq(added, LAMBDA k : ~IsArrayIndex(k))
  IN  StableSort(idx, [i \in 1..Len(idx) |-> IndexValue(idx[i])]) \o str

(***************************************************************************)
(* Grouping the listing by business                                        *)
(***************************************************************************)

\* 'Unknown'
Unknown == <<"U", "n", "k", "n", "o", "w", "n">>

\* scan.business?.name || 'Unknown'
BusinessKey(scan) == IF scan.name = <<>> THEN Unknown ELSE scan.name

\* A key for every scan, whether or not its business already has one
AddedKeysRepeated(scans) == [i \in 1..Len(scans) |-> BusinessKey(scans[i])]

\* The keys of byBusiness in the order results.forEach first adds them
RECURSIVE AddedKeys(_)
AddedKeys(scans) ==
  IF Len(scans) = 0 THEN <<>>
  ELSE LET before == AddedKeys(SubSeq(scans, 1, Len(scans) - 1))
           k == BusinessKey(scans[Len(scans)])
       IN  IF \E i \in 1..Len(before) : before[i] = k THEN before
           ELSE Append(before, k)

\* Object.entries(byBusiness) after the forEach that pushes every scan on its
\* business's array: [name, scans] pairs, scans in listing order
GroupByBusiness(scans) ==
  LET keys == OwnKeys(AddedKeys(scans))
  IN  [i \in 1..Len(keys) |->
         [name  |-> keys[i],
          scans |-> SelectSeq(scans, LAMBDA s : BusinessKey(s) = keys[i])]]

(***************************************************************************)
(* Bounds and input domains                                                *)
(***************************************************************************)

MaxScans == 3
MaxKeywords == 3

Kw(keyword, avgRank) == [keyword |-> keyword, avg_rank |-> avgRank]

\* A scan of the listing; its uuid is its position in the listing
Scan(uuid, name, avgRank, createdAt, token) ==
  [uuid |-> uuid, name |-> name, avg_rank |-> avgRank,
   created_at |-> createdAt, public_share_token |-> token]

\* The detail of a listed scan: the same scan with its keyword results, or a
\* request that fails
Detail(scan, ok, kws) ==
  [ok |-> ok, keyword_results |-> kws, avg_rank |-> scan.avg_rank,
   created_at |-> scan.created_at,
   public_share_token |-> scan.public_share_token]

\* avg_rank values around the thresholds 0.5, 2, 3, 12 and 15 (and null)
Ranks == {NULL, 1200, 1250, 1300, 1500, 1505}

\* The business whose trend is followed
TrendName == <<"A", "b">>

\* Business names of a listing of several businesses: an ordinary name, a
\* name that is a canonical array index, and a second ordinary name
ListingNames == {<<"A", "b">>, <<"7">>, <<"c">>}

ListingRanks == {1200, 1505}

\* Names of which one contains the other once lower-cased, and no name at all
DetailNames == {<<"A", "b">>, <<"a", "b", "c">>, <<>>}

\* What a detail request answers: a failure, or keyword results
DetailAnswers ==
  {[ok |-> FALSE, kws |-> <<>>],
   [ok |-> TRUE, kws |-> <<>>],
   [ok |-> TRUE, kws |-> <<Kw("k1", 1099), Kw("k2", 1500), Kw("k3", 1100)>>],
   [ok |-> TRUE, kws |-> <<Kw("k1", 1501), Kw("k2", 1300), Kw("k3", 2001)>>]}

\* Keyword avg_rank values around the bounds 11, 15 and 20 (and null)
KeywordRanks == {NULL, 1099, 1100, 1500, 1501, 2000, 2001}

KeywordNames == <<"k1", "k2", "k3", "k1">>

\* public_share_token: none, or a token
Tokens == {NULL, 1}

\* The keywords of two scans that are compared, and what a scan has for each:
\* no result, a result without a rank, or a rank (two ranks are 0.04 apart)
CompareKeywords == <<"k1", "k2">>

CompareRanks == {Omitted, NULL, 1100, 1104, 1500}

\* The keyword results of a scan that has rank[i] for CompareKeywords[i]
CompareResults(rank) ==
  LET all == [i \in 1..Len(CompareKeywords) |-> Kw(CompareKeywords[i], rank[i])]
  IN  SelectSeq(all, LAMBDA kw : kw.avg_rank # Omitted)

\* --business values: not given, and two search terms
FilterArgs == {<<>>, <<"A", "b">>, <<"c">>}

(***************************************************************************)
(* The upstream service and main()'s error path                            *)
(***************************************************************************)

\* apiGet(`/api/scans/${uuid}/`) resolves (resp.ok) rather than throws
FetchOk(uuid) == detail[uuid].ok

\* detail.keyword_results || []
KeywordResults(uuid) == detail[uuid].keyword_results

\* main(): the handler threw; the error goes to stderr as JSON, nothing was
\* written to stdout, and the process exits 1
Failed(cmd, uuid) ==
  [cmd |-> cmd, exit |-> 1, error |-> "API Error", failed_uuid |-> uuid]

\* The first uuid of `uuids`, in order, whose detail fetch throws (0 if none)
FirstFailure(uuids) ==
  IF \E i \in 1..Len(uuids) : ~FetchOk(uuids[i])
  THEN uuids[CHOOSE i \in 1..Len(uuids) :
               /\ ~FetchOk(uuids[i])
               /\ \A j \in 1..(i - 1) : FetchOk(uuids[j])]
  ELSE 0

(***************************************************************************)
(* at-risk:clients                                                         *)
(***************************************************************************)

RiskDropThreshold == 200
PoorVisibilityThreshold == 1500
DropWeight == 3
PoorVisibilityWeight == 2
LowEngagementWeight == 1

\* "Rankings dropped": scans.length >= 2 and avgRank && prev && avgRank - prev > 2
RankingsDropped(scans) ==
  /\ Len(scans) >= 2
  /\ Truthy(scans[1].avg_rank)
  /\ Truthy(scans[2].avg_rank)
  /\ scans[1].avg_rank - scans[2].avg_rank > RiskDropThreshold

\* Poor visibility from rank 15 on rather than above it
PoorVisibilityFrom15(avgRank) ==
  Truthy(avgRank) /\ avgRank >= PoorVisibilityThreshold

\* "Poor rankings": avgRank && avgRank > 15
PoorVisibility(avgRank) == Truthy(avgRank) /\ avgRank > PoorVisibilityThreshold

\* Low engagement whatever the number of scans
LowEngagementAlways(scans) == Len(scans) >= 1

\* "Low engagement": scans.length === 1
LowEngagement(scans) == Len(scans) = 1

\* One iteration of the forEach over Object.entries(byBusiness): the entry the
\* business would get (riskScore and riskFactors as accumulated)
RiskEntry(entry) ==
  LET scans == entry.scans
      avgRank == scans[1].avg_rank
      dropped == IF RankingsDropped(scans)
                 THEN <<[factor |-> "Rankings dropped",
                         from |-> Round1(scans[2].avg_rank),
                         to |-> Round1(avgRank)]>>
                 ELSE <<>>
      poor == IF PoorVisibility(avgRank)
              THEN <<[factor |-> "Poor visibility",
                      from |-> NULL, to |-> Round1(avgRank)]>>
              ELSE <<>>
      low == IF LowEngagement(scans)
             THEN <<[factor |-> "Only 1 scan - low engagement",
                     from |-> NULL, to |-> NULL]>>
             ELSE <<>>
  IN  [business_name |-> entry.name,
       risk_score |-> (IF RankingsDropped(scans) THEN DropWeight ELSE 0)
                      + (IF PoorVisibility(avgRank) THEN PoorVisibilityWeight ELSE 0)
                      + (IF LowEngagement(scans) THEN LowEngagementWeight ELSE 0),
       risk_factors |-> dropped \o poor \o low,
       action |-> "Reach out proactively"]

\* if (riskScore > 0) atRisk.push(...)
IsAtRisk(e) == e.risk_score > 0

\* atRisk.sort((a, b) => b.risk_score - a.risk_score)
SortAtRisk(atRisk) ==
  StableSort(atRisk, [i \in 1..Len(atRisk) |-> 0 - atRisk[i].risk_score])

AtRiskReport(scans) ==
  LET entries == GroupByBusiness(scans)
      scored == [i \in 1..Len(entries) |-> RiskEntry(entries[i])]
  IN  [cmd |-> "at-risk:clients", exit |-> 0,
       at_risk_clients |-> SortAtRisk(SelectSeq(scored, IsAtRisk))]

AtRiskClients ==
  /\ pc = "ready"
  /\ out' = AtRiskReport(results)
  /\ pc' = "done"
  /\ UNCHANGED <<results, detail>>

(***************************************************************************)
(* portfolio:summary                                                       *)
(***************************************************************************)

ImprovingThreshold == 50

\* The status a non-null change gets
ClassifyChange(change) ==
  IF change > ImprovingThreshold THEN "improving"
  ELSE IF change < 0 - ImprovingThreshold THEN "declining"
  ELSE "stable"

\* let status = 'new', change = null; if (scans.length >= 2) { ... }
ClientTrend(scans) ==
  IF /\ Len(scans) >= 2
     /\ Truthy(scans[1].avg_rank)
     /\ Truthy(scans[2].avg_rank)
  THEN LET change == scans[2].avg_rank - scans[1].avg_rank
       IN  [status |-> ClassifyChange(change), change |-> change]
  ELSE [status |-> "new", change |-> NULL]

\* summary.clients.push({...})
ClientEntry(entry) ==
  LET latest == entry.scans[1]
      trend == ClientTrend(entry.scans)
  IN  [name |-> entry.name,
       status |-> trend.status,
       avg_rank |-> IF Truthy(latest.avg_rank) THEN Round1(latest.avg_rank)
                    ELSE NULL,
       change |-> IF Truthy(trend.change) THEN Round1(trend.change) ELSE NULL,
       view_url |-> IF Truthy(latest.public_share_token)
                    THEN latest.public_share_token ELSE NULL]

\* const order = { declining: 0, improving: 1, stable: 2, new: 3 }
StatusOrder(status) ==
  CASE status = "declining" -> 0
    [] status = "improving" -> 1
    [] status = "stable" -> 2
    [] status = "new" -> 3

\* The clients left in the order they were pushed
LeaveClientsUnsorted(clients) == clients

\* summary.clients.sort((a, b) => order[a.status] - order[b.status])
SortClients(clients) ==
  StableSort(clients, [i \in 1..Len(clients) |-> StatusOrder(clients[i].status)])

RECURSIVE SumRanks(_)
SumRanks(entries) ==
  IF Len(entries) = 0 THEN 0
  ELSE SumRanks(SubSeq(entries, 1, Len(entries) - 1))
       + entries[Len(entries)].scans[1].avg_rank

\* The average with every business counted, ranked or not
PortfolioAverageOverAll(entries) ==
  LET ranked == SelectSeq(entries, LAMBDA e : Truthy(e.scans[1].avg_rank))
      totalRank == SumRanks(ranked)
      rankCount == Len(entries)
  IN  IF rankCount > 0
      THEN ((totalRank + 5 * rankCount) \div (10 * rankCount)) * 10
      ELSE NULL

\* rankCount > 0 ? Math.round((totalRank / rankCount) * 10) / 10 : null
PortfolioAverage(entries) ==
  LET ranked == SelectSeq(entries, LAMBDA e : Truthy(e.scans[1].avg_rank))
      totalRank == SumRanks(ranked)
      rankCount == Len(ranked)
  IN  IF rankCount > 0
      THEN ((totalRank + 5 * rankCount) \div (10 * rankCount)) * 10
      ELSE NULL

CountStatus(clients, status) ==
  Cardinality({i \in 1..Len(clients) : clients[i].status = status})

PortfolioReport(scans) ==
  LET entries == GroupByBusiness(scans)
      clients == [i \in 1..Len(entries) |-> ClientEntry(entries[i])]
  IN  [cmd |-> "portfolio:summary", exit |-> 0,
       total_clients |-> Len(entries),
       total_scans |-> Len(scans),
       improving |-> CountStatus(clients, "improving"),
       declining |-> CountStatus(clients, "declining"),
       stable |-> CountStatus(clients, "stable"),
       avg_rank_across_portfolio |-> PortfolioAverage(entries),
       clients |-> SortClients(clients)]

PortfolioSummary ==
  /\ pc = "ready"
  /\ out' = PortfolioReport(results)
  /\ pc' = "done"
  /\ UNCHANGED <<results, detail>>

(***************************************************************************)
(* prioritize:today                                                        *)
(***************************************************************************)

UrgentDropThreshold == 300
ImportantThreshold == 1200
QuickWinMin == 1100
DailyQuickWinMax == 1500
DailyLimit == 5

\* Urgent from a drop of 3 on rather than above it
IsUrgentFrom3(scans) ==
  /\ Len(scans) >= 2
  /\ Truthy(scans[1].avg_rank)
  /\ Truthy(scans[2].avg_rank)
  /\ scans[1].avg_rank - scans[2].avg_rank >= UrgentDropThreshold

\* "Urgent: big drops": scans.length >= 2 and avgRank && prev && avgRank - prev > 3
IsUrgent(scans) ==
  /\ Len(scans) >= 2
  /\ Truthy(scans[1].avg_rank)
  /\ Truthy(scans[2].avg_rank)
  /\ scans[1].avg_rank - scans[2].avg_rank > UrgentDropThreshold

\* "Important: poor rankings": avgRank && avgRank > 12
IsImportant(avgRank) == Truthy(avgRank) /\ avgRank > ImportantThreshold

\* kw.avg_rank && kw.avg_rank >= 11 && kw.avg_rank <= 15
IsDailyQuickWin(kw) ==
  /\ Truthy(kw.avg_rank)
  /\ kw.avg_rank >= QuickWinMin
  /\ kw.avg_rank <= DailyQuickWinMax

\* The quick-win entry of a keyword result
QuickWinEntry(name, kw) ==
  [client |-> name,
   keyword |-> kw.keyword,
   current_rank |-> Round1(kw.avg_rank),
   positions_to_page_1 |-> Round1(kw.avg_rank - 1000)]

\* The for-of over detail.keyword_results that pushes the first match and breaks
FirstQuickWin(name, kws) ==
  IF \E i \in 1..Len(kws) : IsDailyQuickWin(kws[i])
  THEN <<QuickWinEntry(name, kws[CHOOSE i \in 1..Len(kws) :
                                   /\ IsDailyQuickWin(kws[i])
                                   /\ \A j \in 1..(i - 1) : ~IsDailyQuickWin(kws[j])])>>
  ELSE <<>>

UrgentItem(entry) ==
  IF IsUrgent(entry.scans)
  THEN <<[client |-> entry.name, task |-> "Investigate ranking drop",
          from |-> Round1(entry.scans[2].avg_rank),
          to |-> Round1(entry.scans[1].avg_rank)]>>
  ELSE <<>>

ImportantItem(entry) ==
  IF IsImportant(entry.scans[1].avg_rank)
  THEN <<[client |-> entry.name, task |-> "Improve rankings",
          rank |-> Round1(entry.scans[1].avg_rank)]>>
  ELSE <<>>

\* The buckets after the first k iterations of the for-of over the businesses
RECURSIVE Buckets(_, _)
Buckets(entries, k) ==
  IF k = 0 THEN [urgent |-> <<>>, important |-> <<>>, quick_wins |-> <<>>]
  ELSE LET b == Buckets(entries, k - 1)
           e == entries[k]
       IN  [urgent |-> b.urgent \o UrgentItem(e),
            important |-> b.important \o ImportantItem(e),
            quick_wins |-> b.quick_wins
                           \o FirstQuickWin(e.name, KeywordResults(e.scans[1].uuid))]

\* Object.keys(priorities).forEach(k => priorities[k] = priorities[k].slice(0, 5))
LimitBuckets(b) ==
  [urgent |-> Slice(b.urgent, DailyLimit),
   important |-> Slice(b.important, DailyLimit),
   quick_wins |-> Slice(b.quick_wins, DailyLimit)]

\* The whole handler under main(): a detail fetch that throws ends the loop and
\* the command; `collected` is priorities as it stands before the slice
PrioritizeReport(scans) ==
  LET entries == GroupByBusiness(scans)
      uuids == [i \in 1..Len(entries) |-> entries[i].scans[1].uuid]
      bad == FirstFailure(uuids)
  IN  IF bad # 0 THEN Failed("prioritize:today", bad)
      ELSE LET b == Buckets(entries, Len(entries))
           IN  [cmd |-> "prioritize:today", exit |-> 0,
                collected |-> b,
                priorities |-> LimitBuckets(b)]

PrioritizeToday ==
  /\ pc = "ready"
  /\ out' = PrioritizeReport(results)
  /\ pc' = "done"
  /\ UNCHANGED <<results, detail>>

(***************************************************************************)
(* quick-wins:find                                                         *)
(***************************************************************************)

QuickWinMax == 2000
QuickWinLimit == 20

\* The window without its upper end, rank 20
IsQuickWinBelow20(kw) ==
  /\ Truthy(kw.avg_rank)
  /\ kw.avg_rank >= QuickWinMin
  /\ kw.avg_rank < QuickWinMax

\* kw.avg_rank && kw.avg_rank >= 11 && kw.avg_rank <= 20
IsQuickWin(kw) ==
  /\ Truthy(kw.avg_rank)
  /\ kw.avg_rank >= QuickWinMin
  /\ kw.avg_rank <= QuickWinMax

\* s.business?.name?.toLowerCase().includes(term): a scan without a business
\* name does not match
NameMatches(scan, term) ==
  scan.name # <<>> /\ includes(toLowerCase(scan.name), term)

\* let scans = results; if (businessFilter) scans = scans.filter(...)
\* (businessFilter is args['--business']?.toLowerCase(); <<>> when not given)
FilterScans(scans, business) ==
  IF business = <<>> THEN scans
  ELSE SelectSeq(scans, LAMBDA s : NameMatches(s, toLowerCase(business)))

\* "Get latest per business": byBusiness[name] is the first scan of that name
LatestPerBusiness(scans) ==
  LET g == GroupByBusiness(scans)
  IN  [i \in 1..Len(g) |-> [name |-> g[i].name, scan |-> g[i].scans[1]]]

FinderEntry(name, kw) ==
  [business_name |-> name,
   keyword |-> kw.keyword,
   current_rank |-> Round1(kw.avg_rank),
   positions_to_page_1 |-> Round1(kw.avg_rank - 1000),
   opportunity |-> IF kw.avg_rank <= DailyQuickWinMax THEN "High" ELSE "Medium"]

\* The inner for-of: every matching keyword of one business, in keyword order
FinderEntries(name, kws) ==
  LET hits == SelectSeq(kws, IsQuickWin)
  IN  [i \in 1..Len(hits) |-> FinderEntry(name, hits[i])]

\* quickWins after the first k iterations of the for-of over the businesses
RECURSIVE CollectQuickWins(_, _)
CollectQuickWins(latest, k) ==
  IF k = 0 THEN <<>>
  ELSE CollectQuickWins(latest, k - 1)
       \o FinderEntries(latest[k].name, KeywordResults(latest[k].scan.uuid))

\* The candidates left in the order they were collected in
LeaveUnsorted(quickWins) == quickWins

\* quickWins.sort((a, b) => a.current_rank - b.current_rank)
SortQuickWins(quickWins) ==
  StableSort(quickWins, [i \in 1..Len(quickWins) |-> quickWins[i].current_rank])

QuickWinsReport(scans, business) ==
  LET latest == LatestPerBusiness(FilterScans(scans, business))
      uuids == [i \in 1..Len(latest) |-> latest[i].scan.uuid]
      bad == FirstFailure(uuids)
  IN  IF bad # 0 THEN Failed("quick-wins:find", bad)
      ELSE LET quickWins == SortQuickWins(CollectQuickWins(latest, Len(latest)))
           IN  [cmd |-> "quick-wins:find", exit |-> 0,
                business |-> business,
                quick_wins |-> Slice(quickWins, QuickWinLimit),
                total |-> Len(quickWins)]

(***************************************************************************)
(* client:report                                                           *)
(***************************************************************************)

\* results.filter(s => s.business?.name?.toLowerCase().includes(searchTerm))
ClientScans(scans, businessName) ==
  SelectSeq(scans, LAMBDA s : NameMatches(s, toLowerCase(businessName)))

\* prevKwRanks[kw.keyword] after the forEach over the previous keyword results:
\* the rank of the last result of that keyword, undefined when there is none
PrevRank(prevKws, keyword) ==
  IF \E i \in 1..Len(prevKws) : prevKws[i].keyword = keyword
  THEN prevKws[CHOOSE i \in 1..Len(prevKws) :
                 /\ prevKws[i].keyword = keyword
                 /\ \A j \in (i + 1)..Len(prevKws) : prevKws[j].keyword # keyword
              ].avg_rank
  ELSE NULL

\* A win also when the rank has not changed
IsWinOrEqual(prevKws, kw) ==
  LET prev == PrevRank(prevKws, kw.keyword)
  IN  Truthy(prev) /\ Truthy(kw.avg_rank) /\ prev - kw.avg_rank >= 0

\* if (prev && current) { const change = prev - current; if (change > 0) ... }
IsWin(prevKws, kw) ==
  LET prev == PrevRank(prevKws, kw.keyword)
  IN  Truthy(prev) /\ Truthy(kw.avg_rank) /\ prev - kw.avg_rank > 0

IsDrop(prevKws, kw) ==
  LET prev == PrevRank(prevKws, kw.keyword)
  IN  Truthy(prev) /\ Truthy(kw.avg_rank) /\ prev - kw.avg_rank < 0

Wins(latestKws, prevKws) ==
  LET w == SelectSeq(latestKws, LAMBDA kw : IsWin(prevKws, kw))
  IN  [i \in 1..Len(w) |->
         [keyword |-> w[i].keyword,
          from |-> PrevRank(prevKws, w[i].keyword),
          to |-> w[i].avg_rank,
          improved_by |-> Round1(PrevRank(prevKws, w[i].keyword) - w[i].avg_rank)]]

Drops(latestKws, prevKws) ==
  LET d == SelectSeq(latestKws, LAMBDA kw : IsDrop(prevKws, kw))
  IN  [i \in 1..Len(d) |->
         [keyword |-> d[i].keyword,
          from |-> PrevRank(prevKws, d[i].keyword),
          to |-> d[i].avg_rank,
          dropped_by |->
            Round1(Abs(PrevRank(prevKws, d[i].keyword) - d[i].avg_rank))]]

\* The whole handler under main(), for a given --business value
ClientReportOf(scans, businessName) ==
  LET clientScans == ClientScans(scans, businessName)
  IN  IF Len(clientScans) = 0
      THEN [cmd |-> "client:report", exit |-> 0, error |-> "No scans found",
            searched |-> businessName]
      ELSE
        LET latest == clientScans[1]
            uuids == IF Len(clientScans) >= 2
                     THEN <<latest.uuid, clientScans[2].uuid>>
                     ELSE <<latest.uuid>>
            bad == FirstFailure(uuids)
        IN  IF bad # 0 THEN Failed("client:report", bad)
            ELSE
              LET latestKws == KeywordResults(latest.uuid)
                  compare == Len(clientScans) >= 2
                  prevKws == IF compare THEN KeywordResults(clientScans[2].uuid)
                             ELSE <<>>
              IN  [cmd |-> "client:report", exit |-> 0, error |-> "",
                   searched |-> businessName,
                   business_name |-> latest.name,
                   latest_scan |-> [date |-> detail[latest.uuid].created_at,
                                    avg_rank |-> detail[latest.uuid].avg_rank,
                                    keywords |-> latestKws],
                   compared_with |-> IF compare THEN clientScans[2].uuid ELSE 0,
                   wins |-> IF compare THEN Wins(latestKws, prevKws) ELSE <<>>,
                   drops |-> IF compare THEN Drops(latestKws, prevKws) ELSE <<>>,
                   total_scans |-> Len(clientScans),
                   view_url |->
                     IF Truthy(detail[latest.uuid].public_share_token)
                     THEN detail[latest.uuid].public_share_token
                     ELSE Omitted]

QuickWinsFind ==
  /\ pc = "ready"
  /\ \E business \in FilterArgs : out' = QuickWinsReport(results, business)
  /\ pc' = "done"
  /\ UNCHANGED <<results, detail>>

\* const businessName = args['--business'] || args._[0]; without one the
\* handler prints the usage and exits 1
ClientReport ==
  /\ pc = "ready"
  /\ \E businessName \in FilterArgs :
       out' = IF businessName = <<>>
              THEN [cmd |-> "client:report", exit |-> 1, error |-> "Usage",
                    failed_uuid |-> 0]
              ELSE ClientReportOf(results, businessName)
  /\ pc' = "done"
  /\ UNCHANGED <<results, detail>>

(***************************************************************************)
(* What the upstream service answers                                       *)
(***************************************************************************)

\* The businesses of the large portfolio: one more than a daily bucket holds
PortfolioNames ==
  <<<<"c">>, <<"7">>, <<"A", "b">>, <<"a", "b", "c">>, <<"3">>, <<"d">>>>

\* hot: dropped from 12.0 to 16.0, four keywords within 11..20
\* poor: one scan at 13.0, three keywords within 11..20
\* calm: one scan at 10.0, one keyword within 11..20
Profiles == {"hot", "poor", "calm"}

ProfileScans(i, p) ==
  CASE p = "hot" ->
         <<[name |-> PortfolioNames[i], avg_rank |-> 1600,
            kws |-> <<Kw("k1", 1990 - 10 * i), Kw("k2", 1100 + 7 * i),
                      Kw("k3", 1500 + i), Kw("k4", 1300)>>],
           [name |-> PortfolioNames[i], avg_rank |-> 1200, kws |-> <<>>]>>
    [] p = "poor" ->
         <<[name |-> PortfolioNames[i], avg_rank |-> 1300,
            kws |-> <<Kw("k1", 1250 + i), Kw("k2", 1800 - i), Kw("k3", 1100)>>]>>
    [] p = "calm" ->
         <<[name |-> PortfolioNames[i], avg_rank |-> 1000,
            kws |-> <<Kw("k1", 1000), Kw("k2", 2001), Kw("k3", 1404 + i)>>]>>

RECURSIVE PortfolioRows(_, _)
PortfolioRows(profile, k) ==
  IF k = 0 THEN <<>>
  ELSE PortfolioRows(profile, k - 1) \o ProfileScans(k, profile[k])

PortfolioListing(profile) ==
  LET rows == PortfolioRows(profile, Len(PortfolioNames))
  IN  [u \in 1..Len(rows) |->
         Scan(u, rows[u].name, rows[u].avg_rank, Len(rows) + 1 - u, NULL)]

PortfolioKeywords(profile, u) ==
  PortfolioRows(profile, Len(PortfolioNames))[u].kws

Perms(n) == {f \in [1..n -> 1..n] : \A i, j \in 1..n : f[i] = f[j] => i = j}

\* The scans of one business, newest first, of any rank
InitTrend ==
  \E n \in 0..MaxScans :
    \E ranks \in [1..n -> Ranks] :
      /\ results = [i \in 1..n |-> Scan(i, TrendName, ranks[i], n + 1 - i, NULL)]
      /\ detail = [i \in 1..n |-> Detail(results[i], TRUE, <<>>)]

\* The scans of one business in any order of age
InitOrder ==
  \E n \in 0..MaxScans :
    \E ranks \in [1..n -> ListingRanks], times \in Perms(n) :
      /\ results = [i \in 1..n |-> Scan(i, TrendName, ranks[i], times[i], NULL)]
      /\ detail = [i \in 1..n |-> Detail(results[i], TRUE, <<>>)]

\* Newest-first listings of up to MaxScans scans of several businesses, a scan
\* with or without a rank
InitListing ==
  \E n \in 0..MaxScans :
    \E names \in [1..n -> ListingNames],
       ranks \in [1..n -> ListingRanks \cup {NULL}] :
      /\ results = [i \in 1..n |-> Scan(i, names[i], ranks[i], n + 1 - i, NULL)]
      /\ detail = [i \in 1..n |-> Detail(results[i], TRUE, <<>>)]

\* Newest-first listings whose details fail or carry keyword results
InitDetail ==
  \E n \in 0..MaxScans :
    \E names \in [1..n -> DetailNames], answers \in [1..n -> DetailAnswers] :
      /\ results = [i \in 1..n |-> Scan(i, names[i], 1250, n + 1 - i, NULL)]
      /\ detail = [i \in 1..n |->
                     Detail(results[i], answers[i].ok, answers[i].kws)]

\* One scan with any keyword results of up to MaxKeywords keywords
InitKeywords ==
  \E n \in 0..MaxKeywords, token \in Tokens :
    \E ranks \in [1..n -> KeywordRanks] :
      /\ results = <<Scan(1, <<"A", "b">>, 1250, 1, token)>>
      /\ detail = <<Detail(results[1], TRUE,
                           [i \in 1..n |-> Kw(KeywordNames[i], ranks[i])])>>

\* Two scans of one business with any keyword results over CompareKeywords
InitCompare ==
  \E latest, previous \in [1..Len(CompareKeywords) -> CompareRanks] :
    /\ results = <<Scan(1, TrendName, 1250, 2, NULL),
                   Scan(2, TrendName, 1250, 1, NULL)>>
    /\ detail = <<Detail(results[1], TRUE, CompareResults(latest)),
                  Detail(results[2], TRUE, CompareResults(previous))>>

\* More businesses than a bucket holds, and more quick wins than the finder
\* lists: each business has one of three profiles
InitPortfolio ==
  \E profile \in [1..Len(PortfolioNames) -> Profiles] :
    /\ results = PortfolioListing(profile)
    /\ detail = [u \in 1..Len(results) |->
                   Detail(results[u], TRUE, PortfolioKeywords(profile, u))]

Init ==
  /\ pc = "ready"
  /\ out = [cmd |-> "none", exit |-> 0]
  /\ \/ InitTrend
     \/ InitOrder
     \/ InitListing
     \/ InitDetail
     \/ InitKeywords
     \/ InitCompare
     \/ InitPortfolio

Next ==
  \/ ClientReport
  \/ PortfolioSummary
  \/ PrioritizeToday
  \/ QuickWinsFind
  \/ AtRiskClients

Spec == Init /\ [][Next]_vars

(***************************************************************************)
(* Properties                                                              *)
(*                                                                         *)
(* What the properties say of a report is stated from the listing and the  *)
(* details alone. Unless a property says otherwise, the latest and the     *)
(* previous scan of a business are the first and the second scan of that   *)
(* business in the listing, as the handlers take them; C1 is the property  *)
(* about that choice.                                                      *)
(***************************************************************************)

\* The handler of `cmd` has run and printed its report
Reported(cmd) == pc = "done" /\ out.cmd = cmd /\ out.exit = 0

\* The businesses of the listing, and the scans of one, in listing order
BusinessKeys == {BusinessKey(results[i]) : i \in 1..Len(results)}

ScansOf(key) == SelectSeq(results, LAMBDA s : BusinessKey(s) = key)

\* The scans of a business, newest first by created_at
NewestFirst(key) ==
  LET scans == ScansOf(key)
  IN  StableSort(scans, [i \in 1..Len(scans) |-> 0 - scans[i].created_at])

\* The position in the listing of the first scan of a business
FirstSeen(key) ==
  CHOOSE i \in 1..Len(results) :
    /\ BusinessKey(results[i]) = key
    /\ \A j \in 1..(i - 1) : BusinessKey(results[j]) # key

\* A rank is present
Present(rank) == rank # NULL

\* The rank of scans[1] is worse than that of scans[2] by more than `by`
WorsenedBy(scans, by) ==
  /\ Len(scans) >= 2
  /\ Present(scans[1].avg_rank)
  /\ Present(scans[2].avg_rank)
  /\ scans[1].avg_rank - scans[2].avg_rank > by

\* The risk factors of section 4.3 that apply to a business with these scans,
\* latest first, as weights
DropFactor(scans) == IF WorsenedBy(scans, 200) THEN 3 ELSE 0

PoorFactor(scans) ==
  IF Present(scans[1].avg_rank) /\ scans[1].avg_rank > 1500 THEN 2 ELSE 0

EngagementFactor(scans) == IF Len(scans) = 1 THEN 1 ELSE 0

RiskSum(scans) == DropFactor(scans) + PoorFactor(scans) + EngagementFactor(scans)

FactorCount(scans) ==
  (IF DropFactor(scans) > 0 THEN 1 ELSE 0)
  + (IF PoorFactor(scans) > 0 THEN 1 ELSE 0)
  + (IF EngagementFactor(scans) > 0 THEN 1 ELSE 0)

\* The status of section 4.2 for delta = previous - latest
StatusOfDelta(delta) ==
  IF delta > 50 THEN "improving"
  ELSE IF delta < 0 - 50 THEN "declining"
  ELSE "stable"

\* A client of a bucket of prioritize:today
InBucket(bucket, key) == \E i \in 1..Len(bucket) : bucket[i].client = key

\* C1: in every report that groups scans by business, the scan treated as
\* latest is the one with the greatest createdAt of the business and the
\* previous one the second greatest, whatever order the listing came in: the
\* rank and change of a portfolio client, the risk score of an at-risk client
\* and the urgent bucket are those of the two newest scans.
C1_LatestIsNewestInAnyOrder ==
  /\ Reported("portfolio:summary") =>
       \A i \in 1..Len(out.clients) :
         LET c == out.clients[i]
             byAge == NewestFirst(c.name)
         IN  /\ c.avg_rank = IF Present(byAge[1].avg_rank)
                             THEN Round1(byAge[1].avg_rank) ELSE NULL
             /\ (Len(byAge) >= 2 /\ Present(byAge[1].avg_rank)
                   /\ Present(byAge[2].avg_rank))
                  => c.status = StatusOfDelta(byAge[2].avg_rank
                                               - byAge[1].avg_rank)
  /\ Reported("at-risk:clients") =>
       \A i \in 1..Len(out.at_risk_clients) :
         out.at_risk_clients[i].risk_score
           = RiskSum(NewestFirst(out.at_risk_clients[i].business_name))
  /\ Reported("prioritize:today") =>
       \A key \in BusinessKeys :
         InBucket(out.collected.urgent, key)
           <=> WorsenedBy(NewestFirst(key), 300)

\* C2: in prioritize:today and quick-wins:find, a detail fetch that fails for
\* one business does not abort the report: the command still prints a report,
\* and it holds the quick win of every business whose fetch succeeded.
C2_FetchFailureDoesNotAbort ==
  (pc = "done" /\ out.cmd \in {"prioritize:today", "quick-wins:find"}) =>
    /\ out.exit = 0
    /\ out.cmd = "prioritize:today" =>
         \A key \in BusinessKeys :
           LET u == ScansOf(key)[1].uuid
           IN  (/\ detail[u].ok
                /\ \E j \in 1..Len(detail[u].keyword_results) :
                     LET r == detail[u].keyword_results[j].avg_rank
                     IN  Present(r) /\ r >= 1100 /\ r <= 1500)
               => InBucket(out.collected.quick_wins, key)

\* C3: every entry of at_risk_clients has as risk_score the sum of the weights
\* of the factors that apply to its business (+3 at least two scans and the
\* latest rank worse than the previous by more than 2, +2 latest rank above
\* 15, +1 exactly one scan), as many risk_factors as factors apply, and the
\* score 6 if all three apply.
C3_RiskScoreIsSumOfWeights ==
  Reported("at-risk:clients") =>
    \A i \in 1..Len(out.at_risk_clients) :
      LET e == out.at_risk_clients[i]
          scans == ScansOf(e.business_name)
      IN  /\ e.risk_score = RiskSum(scans)
          /\ Len(e.risk_factors) = FactorCount(scans)
          /\ FactorCount(scans) = 3 => e.risk_score = 6

\* A business that dropped by more than 2 to a rank above 15 is listed with
\* the score 5 and two factors
C3_Witness ==
  /\ Reported("at-risk:clients")
  /\ \E i \in 1..Len(out.at_risk_clients) :
       /\ out.at_risk_clients[i].risk_score = 5
       /\ Len(out.at_risk_clients[i].risk_factors) = 2
       /\ Len(ScansOf(out.at_risk_clients[i].business_name)) >= 2

\* C4: in portfolio:summary, with delta = previous.avgRank - latest.avgRank, a
\* client is improving if delta > 0.5, declining if delta < -0.5 and stable
\* otherwise, and it is new if and only if its business has fewer than 2 scans.
C4_StatusFromDeltaNewIffUnderTwoScans ==
  Reported("portfolio:summary") =>
    \A i \in 1..Len(out.clients) :
      LET c == out.clients[i]
          scans == ScansOf(c.name)
      IN  /\ c.status = "new" <=> Len(scans) < 2
          /\ (Len(scans) >= 2 /\ Present(scans[1].avg_rank)
                /\ Present(scans[2].avg_rank))
               => c.status = StatusOfDelta(scans[2].avg_rank - scans[1].avg_rank)

\* C5: for a business with fewer than 2 scans no delta is reported and nothing
\* is derived from one: portfolio:summary reports change null and status new
\* and counts it in none of improving, declining and stable; client:report
\* returns empty wins and drops; neither the urgent bucket nor the
\* ranking-drop risk factor applies to it.
C5_NoDeltaUnderTwoScans ==
  /\ Reported("portfolio:summary") =>
       /\ \A i \in 1..Len(out.clients) :
            Len(ScansOf(out.clients[i].name)) < 2
              => out.clients[i].change = NULL /\ out.clients[i].status = "new"
       /\ out.improving + out.declining + out.stable
            = Cardinality({i \in 1..Len(out.clients) :
                             /\ Len(ScansOf(out.clients[i].name)) >= 2
                             /\ out.clients[i].status # "new"})
  /\ (Reported("client:report") /\ out.error = "") =>
       (Len(ScansOf(out.business_name)) < 2
          => out.wins = <<>> /\ out.drops = <<>>)
  /\ Reported("prioritize:today") =>
       \A key \in BusinessKeys :
         Len(ScansOf(key)) < 2 => ~InBucket(out.collected.urgent, key)
  /\ Reported("at-risk:clients") =>
       \A i \in 1..Len(out.at_risk_clients) :
         LET e == out.at_risk_clients[i]
         IN  Len(ScansOf(e.business_name)) < 2
               => \A f \in 1..Len(e.risk_factors) :
                    e.risk_factors[f].factor # "Rankings dropped"

\* C6: the urgent, important and quick_wins buckets of prioritize:today are
\* disjoint: no client is in more than one of them.
C6_BucketsDisjoint ==
  Reported("prioritize:today") =>
    \A key \in BusinessKeys :
      /\ ~(InBucket(out.priorities.urgent, key)
             /\ InBucket(out.priorities.important, key))
      /\ ~(InBucket(out.priorities.urgent, key)
             /\ InBucket(out.priorities.quick_wins, key))
      /\ ~(InBucket(out.priorities.important, key)
             /\ InBucket(out.priorities.quick_wins, key))

\* C7: before truncation, a business is in the urgent bucket of
\* prioritize:today exactly when it has at least two scans, both ranks are
\* present, and latest.avgRank - previous.avgRank > 3; a worsening of exactly
\* 3 is not urgent.
C7_UrgentIffWorsenedByMoreThan3 ==
  Reported("prioritize:today") =>
    \A key \in BusinessKeys :
      /\ InBucket(out.collected.urgent, key) <=> WorsenedBy(ScansOf(key), 300)
      /\ Cardinality({i \in 1..Len(out.collected.urgent) :
                        out.collected.urgent[i].client = key}) <= 1

\* A business that worsened from 12.0 to 15.05 is urgent
C7_Witness ==
  /\ Reported("prioritize:today")
  /\ \E key \in BusinessKeys :
       /\ InBucket(out.collected.urgent, key)
       /\ Len(ScansOf(key)) >= 2
       /\ ScansOf(key)[1].avg_rank - ScansOf(key)[2].avg_rank = 305

\* The keyword results of the latest scan of a business
LatestKeywords(key) == detail[ScansOf(key)[1].uuid].keyword_results

\* The positions of the keyword results of a business whose rank is present
\* and within [lo, hi]
Within(key, lo, hi) ==
  {j \in 1..Len(LatestKeywords(key)) :
     LET r == LatestKeywords(key)[j].avg_rank
     IN  Present(r) /\ r >= lo /\ r <= hi}

\* The businesses quick-wins:find looks at: all, or with --business those
\* whose name contains the term
Searched ==
  {key \in BusinessKeys :
     \/ out.business = <<>>
     \/ \E i \in 1..Len(results) :
          /\ BusinessKey(results[i]) = key
          /\ NameMatches(results[i], toLowerCase(out.business))}

\* The keyword results quick-wins:find has to list, as <<business, position>>
Candidates ==
  UNION {{<<key, j>> : j \in Within(key, 1100, 2000)} : key \in Searched}

CandidateRank(c) == Round1(LatestKeywords(c[1])[c[2]].avg_rank)

\* C8: quick-wins:find lists a keyword of the latest scan of a business if and
\* only if its avgRank is within [11, 20] (every such keyword result counts in
\* total, every listed entry is one, and all are listed when they fit);
\* prioritize:today lists a quick win for a business if and only if a keyword
\* of its latest scan is within [11, 15], and then exactly one entry, for the
\* first such keyword in keyword order.
C8_QuickWinIntervals ==
  /\ Reported("quick-wins:find") =>
       /\ out.total = Cardinality(Candidates)
       /\ \A i \in 1..Len(out.quick_wins) :
            \E c \in Candidates :
              /\ out.quick_wins[i].business_name = c[1]
              /\ out.quick_wins[i].keyword = LatestKeywords(c[1])[c[2]].keyword
              /\ out.quick_wins[i].current_rank = CandidateRank(c)
       /\ out.total <= 20 =>
            \A c \in Candidates :
              \E i \in 1..Len(out.quick_wins) :
                /\ out.quick_wins[i].business_name = c[1]
                /\ out.quick_wins[i].keyword = LatestKeywords(c[1])[c[2]].keyword
                /\ out.quick_wins[i].current_rank = CandidateRank(c)
  /\ Reported("prioritize:today") =>
       \A key \in BusinessKeys :
         LET hits == Within(key, 1100, 1500)
             mine == {i \in 1..Len(out.collected.quick_wins) :
                        out.collected.quick_wins[i].client = key}
         IN  IF hits = {} THEN mine = {}
             ELSE /\ Cardinality(mine) = 1
                  /\ LET first == CHOOSE j \in hits : \A k \in hits : j <= k
                         e == out.collected.quick_wins[CHOOSE i \in mine : TRUE]
                     IN  /\ e.keyword = LatestKeywords(key)[first].keyword
                         /\ e.current_rank
                              = Round1(LatestKeywords(key)[first].avg_rank)

\* quick-wins:find listed a keyword at exactly 20 and left out one at 20.01
C8_Witness ==
  /\ Reported("quick-wins:find")
  /\ \E key \in BusinessKeys :
       /\ \E j \in 1..Len(LatestKeywords(key)) :
            LatestKeywords(key)[j].avg_rank = 2001
       /\ \E j \in 1..Len(LatestKeywords(key)) :
            LatestKeywords(key)[j].avg_rank = 2000
       /\ out.total = 1

\* How many listed or due quick wins have the current rank v, or a lower one
ListedAt(v) ==
  Cardinality({i \in 1..Len(out.quick_wins) : out.quick_wins[i].current_rank = v})

DueAt(v) == Cardinality({c \in Candidates : CandidateRank(c) = v})

\* The position of a business in the iteration over the grouped listing
IterationIndex(key) ==
  LET g == GroupByBusiness(results)
  IN  CHOOSE i \in 1..Len(g) : g[i].name = key

\* `listed` is the first `limit` entries of `bucket`, itself in business
\* iteration order
FirstOfBucket(listed, bucket, limit) ==
  /\ Len(listed) = (IF Len(bucket) < limit THEN Len(bucket) ELSE limit)
  /\ \A i \in 1..Len(listed) : listed[i] = bucket[i]
  /\ \A i, j \in 1..Len(bucket) :
       i < j => IterationIndex(bucket[i].client) < IterationIndex(bucket[j].client)

\* C9: truncation comes after sorting. quick_wins of quick-wins:find is the
\* first 20 of all candidates sorted ascending by current rank (it is sorted,
\* it holds min(20, total) entries, total counts every candidate, every listed
\* entry is a candidate and no omitted candidate has a lower current rank than
\* a listed one); each bucket of prioritize:today is the first 5 entries of the
\* bucket in business iteration order, so none has more than 5.
C9_TruncationAfterSorting ==
  /\ Reported("quick-wins:find") =>
       /\ out.total = Cardinality(Candidates)
       /\ Len(out.quick_wins) = (IF out.total < 20 THEN out.total ELSE 20)
       /\ \A i, j \in 1..Len(out.quick_wins) :
            i < j => out.quick_wins[i].current_rank <= out.quick_wins[j].current_rank
       /\ \A c \in Candidates :
            LET v == CandidateRank(c)
            IN  /\ ListedAt(v) <= DueAt(v)
                /\ (\E i \in 1..Len(out.quick_wins) :
                      out.quick_wins[i].current_rank > v)
                     => ListedAt(v) = DueAt(v)
       /\ \A i \in 1..Len(out.quick_wins) :
            DueAt(out.quick_wins[i].current_rank) >= 1
  /\ Reported("prioritize:today") =>
       /\ FirstOfBucket(out.priorities.urgent, out.collected.urgent, 5)
       /\ FirstOfBucket(out.priorities.important, out.collected.important, 5)
       /\ FirstOfBucket(out.priorities.quick_wins, out.collected.quick_wins, 5)
       /\ Len(out.priorities.urgent) <= 5
       /\ Len(out.priorities.important) <= 5
       /\ Len(out.priorities.quick_wins) <= 5

\* quick-wins:find found more than 20 candidates and listed 20 of them, the
\* last business's among them
C9_Witness ==
  /\ Reported("quick-wins:find")
  /\ out.total > 20
  /\ Len(out.quick_wins) = 20
  /\ \E i \in 1..Len(out.quick_wins) :
       out.quick_wins[i].business_name = PortfolioNames[Len(PortfolioNames)]

\* C10: at_risk_clients holds exactly the businesses whose risk score is
\* above 0 (never an entry with score 0), ordered by risk_score descending,
\* entries of equal score in the order in which their businesses were first
\* seen in the listing.
C10_AtRiskPositiveSortedTiesFirstSeen ==
  Reported("at-risk:clients") =>
    LET list == out.at_risk_clients
    IN  /\ \A key \in BusinessKeys :
             RiskSum(ScansOf(key)) > 0
               <=> \E i \in 1..Len(list) : list[i].business_name = key
        /\ \A i \in 1..Len(list) : list[i].risk_score > 0
        /\ \A i, j \in 1..Len(list) :
             i < j =>
               /\ list[i].business_name # list[j].business_name
               /\ list[i].risk_score >= list[j].risk_score
               /\ list[i].risk_score = list[j].risk_score
                    => FirstSeen(list[i].business_name)
                         < FirstSeen(list[j].business_name)

\* The sum of the latest ranks of a set of businesses
RECURSIVE SumLatest(_)
SumLatest(keys) ==
  IF keys = {} THEN 0
  ELSE LET k == CHOOSE x \in keys : TRUE
       IN  ScansOf(k)[1].avg_rank + SumLatest(keys \ {k})

\* The businesses whose latest scan has a rank
RankedBusinesses == {k \in BusinessKeys : Present(ScansOf(k)[1].avg_rank)}

\* C11: avg_rank_across_portfolio of portfolio:summary is the mean of the
\* latest rank over exactly the businesses whose latest scan has a rank,
\* rounded to one decimal (halves upwards); a business without a rank adds to
\* neither the sum nor the count; it is null when no business has a rank
C11_AverageOverRankedBusinesses ==
  Reported("portfolio:summary") =>
    LET total == SumLatest(RankedBusinesses)
        count == Cardinality(RankedBusinesses)
        avg == out.avg_rank_across_portfolio
    IN  IF count = 0 THEN avg = NULL
        ELSE /\ avg # NULL
             /\ avg % 10 = 0
             /\ avg * count <= total + 5 * count
             /\ total + 5 * count < (avg + 10) * count

\* A portfolio with a business without a rank beside two ranked ones whose
\* mean has more than one decimal
C11_Witness ==
  /\ Reported("portfolio:summary")
  /\ RankedBusinesses # BusinessKeys
  /\ Cardinality(RankedBusinesses) >= 2
  /\ SumLatest(RankedBusinesses) % (10 * Cardinality(RankedBusinesses)) # 0

\* The place of a status in the order declining, improving, stable, new
StatusPriority(status) ==
  CHOOSE p \in 1..4 : <<"declining", "improving", "stable", "new">>[p] = status

ReportedScans ==
  SelectSeq(results,
            LAMBDA s : includes(toLowerCase(s.name), toLowerCase(out.searched)))

\* A report of client:report on at least one scan
ClientReported == Reported("client:report") /\ out.error = ""

\* view_url is there exactly when the scan has a share token, and is never
\* null
ViewUrlFollowsToken(viewUrl, scan) ==
  /\ viewUrl # Omitted <=> Present(scan.public_share_token)
  /\ viewUrl # NULL

\* C13: in client:report and in each client entry of portfolio:summary, the
\* view_url field is present if and only if the latest scan has a share
\* token; without a token the field is omitted, never emitted as null.
C13_ViewUrlPresentIffToken ==
  /\ ClientReported => ViewUrlFollowsToken(out.view_url, ReportedScans[1])
  /\ Reported("portfolio:summary") =>
       \A i \in 1..Len(out.clients) :
         ViewUrlFollowsToken(out.clients[i].view_url,
                             ScansOf(out.clients[i].name)[1])

\* The keyword results of the two scans client:report compares
ComparedLatest == detail[ReportedScans[1].uuid].keyword_results

ComparedPrevious == detail[ReportedScans[2].uuid].keyword_results

\* The ranks a keyword has in keyword results (one at most: a scan has one
\* result per keyword)
RanksOf(kws, keyword) ==
  {kws[i].avg_rank : i \in {j \in 1..Len(kws) : /\ kws[j].keyword = keyword
                                                 /\ Present(kws[j].avg_rank)}}

\* previous - latest for a keyword ranked in both scans
KeywordDelta(keyword) ==
  (CHOOSE r \in RanksOf(ComparedPrevious, keyword) : TRUE)
  - (CHOOSE r \in RanksOf(ComparedLatest, keyword) : TRUE)

RankedInBoth(keyword) ==
  /\ RanksOf(ComparedLatest, keyword) # {}
  /\ RanksOf(ComparedPrevious, keyword) # {}

\* The entries of a list of wins or drops for a keyword
EntriesOf(list, keyword) == {i \in 1..Len(list) : list[i].keyword = keyword}

\* v is x rounded to one decimal, halves upwards
NearestTenth(v, x) == v % 10 = 0 /\ v <= x + 5 /\ x + 5 < v + 10

\* C14: in a client:report that compares two scans, a keyword is in wins
\* exactly when it has a rank in both the latest and the previous keyword
\* results and previous - latest > 0, and in drops exactly when that
\* difference is < 0; improved_by and dropped_by are the magnitude of the
\* difference, rounded, never negative; a keyword of one scan only, without a
\* rank, or with difference 0 is in neither list, and no keyword is in both.
C14_WinsAndDropsByKeywordDelta ==
  ClientReported /\ Len(ReportedScans) >= 2 =>
    LET keywords == {ComparedLatest[i].keyword : i \in 1..Len(ComparedLatest)}
                    \cup {ComparedPrevious[i].keyword :
                            i \in 1..Len(ComparedPrevious)}
                    \cup {out.wins[i].keyword : i \in 1..Len(out.wins)}
                    \cup {out.drops[i].keyword : i \in 1..Len(out.drops)}
    IN  \A k \in keywords :
          LET won == EntriesOf(out.wins, k)
              lost == EntriesOf(out.drops, k)
          IN  /\ won # {} <=> RankedInBoth(k) /\ KeywordDelta(k) > 0
              /\ lost # {} <=> RankedInBoth(k) /\ KeywordDelta(k) < 0
              /\ won = {} \/ lost = {}
              /\ Cardinality(won) <= 1 /\ Cardinality(lost) <= 1
              /\ \A i \in won :
                   /\ out.wins[i].from \in RanksOf(ComparedPrevious, k)
                   /\ out.wins[i].to \in RanksOf(ComparedLatest, k)
                   /\ NearestTenth(out.wins[i].improved_by, KeywordDelta(k))
              /\ \A i \in lost :
                   /\ out.drops[i].from \in RanksOf(ComparedPrevious, k)
                   /\ out.drops[i].to \in RanksOf(ComparedLatest, k)
                   /\ NearestTenth(out.drops[i].dropped_by, 0 - KeywordDelta(k))

\* A comparison with a win beside a keyword whose rank has not changed
C14_Witness ==
  /\ ClientReported
  /\ Len(ReportedScans) >= 2
  /\ Len(out.wins) = 1
  /\ \E k \in {"k1", "k2"} :
       /\ RankedInBoth(k)
       /\ KeywordDelta(k) = 0
       /\ EntriesOf(out.wins, k) = {}
       /\ EntriesOf(out.drops, k) = {}

\* A handler that groups the whole listing by business has run
GroupingRan ==
  /\ pc = "done"
  /\ out.cmd \in {"portfolio:summary", "prioritize:today", "at-risk:clients"}

\* The places <<group, position>> of a grouping that hold a scan
PlacesOf(groups, scan) ==
  {p \in UNION {{<<i, j>> : j \in 1..Len(groups[i].scans)} :
                  i \in 1..Len(groups)} :
     groups[p[1]].scans[p[2]] = scan}

RECURSIVE SumOfSizes(_)
SumOfSizes(groups) ==
  IF Len(groups) = 0 THEN 0
  ELSE Len(groups[1].scans) + SumOfSizes(Tail(groups))

HasFactor(entry, factor) ==
  \E f \in 1..Len(entry.risk_factors) : entry.risk_factors[f].factor = factor

\* C16: in at-risk:clients the ranking-drop factor and the low-engagement
\* factor never both apply to a business, so every reported risk_score is
\* one of 1, 2, 3 and 5, never 4 or 6.
C16_RiskScoreNever4Or6 ==
  Reported("at-risk:clients") =>
    \A i \in 1..Len(out.at_risk_clients) :
      LET e == out.at_risk_clients[i]
      IN  /\ e.risk_score \in {1, 2, 3, 5}
          /\ ~(/\ HasFactor(e, "Rankings dropped")
               /\ HasFactor(e, "Only 1 scan - low engagement"))

\* A report with a business of score 5 (dropped and poorly visible) and a
\* business of one scan that scores 3 for poor visibility and low engagement
C16_Witness ==
  /\ Reported("at-risk:clients")
  /\ \E i \in 1..Len(out.at_risk_clients) :
       /\ out.at_risk_clients[i].risk_score = 5
       /\ HasFactor(out.at_risk_clients[i], "Rankings dropped")
  /\ \E i \in 1..Len(out.at_risk_clients) :
       /\ out.at_risk_clients[i].risk_score = 3
       /\ HasFactor(out.at_risk_clients[i], "Only 1 scan - low engagement")

\* C17: in client:report the two scans compared for wins and drops (the first
\* and second scan matching the search term) belong to the same business, and
\* total_scans counts the scans of that one business only, for any search
\* term and listing, also when the term is part of several business names.
C17_ReportOnOneBusiness ==
  ClientReported =>
    /\ out.compared_with # 0 =>
         results[out.compared_with].name = out.business_name
    /\ out.total_scans = Len(ScansOf(out.business_name))

\* C18: in every client entry of portfolio:summary, change is null if and
\* only if status is new: an improving, declining or stable client carries a
\* numeric change (0 for an unchanged rank), a new client none.
C18_ChangeNullIffNew ==
  Reported("portfolio:summary") =>
    \A i \in 1..Len(out.clients) :
      out.clients[i].change = NULL <=> out.clients[i].status = "new"

====
